---- MODULE Spec2Model ----
(***************************************************************************)
(* A model of tools/respecDocWriter.js: fetchAndWrite() drives a headless  *)
(* browser through launch, navigation, document-kind validation,           *)
(* extraction, halt check, dispatch and teardown, while the console relay  *)
(* registered on the page runs its asynchronous handlers in between.       *)
(*                                                                         *)
(* Strings that the code takes apart or puts together (URLs, console       *)
(* texts, data URLs, version strings) are sequences of tokens; all other   *)
(* strings are atoms.                                                      *)
(***************************************************************************)
EXTENDS Integers, Sequences, FiniteSets, Bags, TLC

VARIABLES
    pc,             \* position of fetchAndWrite (and of the calls it awaits)
    src,            \* argument: the source URL, as <<origin, pathname[, search]>>
    out,            \* argument: Null, "" or a path
    whenToHalt,     \* argument: [haltOnError, haltOnWarn]
    timeout,        \* option: milliseconds
    useLocal,       \* option: answer the request for ReSpec with the local build
    browser,        \* "none" | "open" | "closed"
    page,           \* "none" | "open" | "closed"
    listening,      \* the "console" listener is registered on the page
    intercepting,   \* request interception is enabled on the page
    requestListener, \* requestInterceptor is registered for "request"
    requests,       \* the intercepted requests and how far their handlers are
    haltFlags,      \* [error, warn], shared by the relay and fetchAndWrite
    pending,        \* bag of the messages whose handler awaits Promise.all (line 311)
    emitted,        \* console messages the page has emitted so far
    delivered,      \* the message the listener of line 310 was last called with
    terminal,       \* what the tool printed with console.error/console.warn
    response,       \* the response page.goto() resolved with
    validation,     \* what isRespec() has read and waited for in the page
    isRespecDoc,    \* what page.evaluate(isRespec) resolved with
    respecVersion,  \* window.respecVersion as getVersion() read it
    version,        \* the parsed version held by generateHTML
    spent,          \* Date.now() - start, as the getter of the timer read it
    ms,             \* timer.remaining as handed to evaluateHTML
    readyState,     \* document.respecIsReady: "pending" | "resolved" | "rejected"
    exportPath,     \* the branch evaluateHTML is in: "none" | "legacy" | "modern"
    html,           \* the HTML generateHTML returned
    error,          \* the exception in flight, or NoError
    stdout,         \* what was written to process.stdout
    file,           \* what writeFile stored at the destination
    attempts,       \* how many times each stage was started
    succeeded,      \* the stages that completed without throwing
    result,         \* the value the returned promise resolved with
    exitCode        \* the status process.exit() was called with

inputs == << src, out, whenToHalt, timeout, useLocal >>
interception == << intercepting, requestListener, requests >>
relay == << haltFlags, pending, emitted, delivered, terminal >>
nav == << response, validation, isRespecDoc >>
gen == << respecVersion, version, spent, ms, readyState, exportPath >>
outcome == << stdout, file, result, exitCode >>
progress == << attempts, succeeded >>

vars == << pc, inputs, browser, page, listening, interception, relay, nav,
           gen, html, error, outcome, progress >>

(***************************************************************************)
(* Bounds of the model.                                                    *)
(***************************************************************************)
MaxMsgs == 1
MaxTimeout == 2
MaxSpent == MaxTimeout + 1
MaxDuration == 10
MaxReqs == 2

(***************************************************************************)
(* Values.                                                                 *)
(***************************************************************************)
Null == "<null>"
Unset == 0 - 1
Nothing == << >>
NoError == [kind |-> "none"]
NoResponse == [ok |-> TRUE, status |-> Unset]
NoFile == [path |-> << >>, data |-> << >>]
NoMessage == [type |-> "none", text |-> "", args |-> << >>]

Destinations == { Null, "", "out/index.html" }

SrcURLs ==
    { << "https://example.org", "/spec/index.html", "?apiKey=secret" >> }

\* ok() and status() of the navigation response.  Status 0 is what a local
\* file load reports; whether ok() holds for it depends on the puppeteer used.
Responses ==
    { [ok |-> TRUE,  status |-> 200],
      [ok |-> FALSE, status |-> 404],
      [ok |-> FALSE, status |-> 0],
      [ok |-> TRUE,  status |-> 0] }

\* The script elements of document.head: their data-main and src attributes.
Heads ==
    { << >>,
      << [dataMain |-> << "js/", "profile-", "w3c-common" >>,
          src      |-> << "js/", "require.js" >>] >>,
      << [dataMain |-> << >>,
          src      |-> << "https://www.w3.org/Tools/", "respec", "/", "respec", "-w3c" >>] >>,
      << [dataMain |-> << >>, src |-> << "js/", "jquery.js" >>],
         [dataMain |-> << "js/", "main" >>, src |-> << "js/", "require.js" >>] >> }

\* The requests of the page: method, resource type, host, and the pathname as
\* its directories and the tokens of its last segment.
Requests ==
    { [method |-> "GET", resourceType |-> "script", host |-> "w3c.github.io",
       dir |-> << "respec", "builds" >>, file |-> << "respec-", "w3c", ".js" >>],
      [method |-> "GET", resourceType |-> "script", host |-> "www.w3.org",
       dir |-> << "Tools", "respec" >>, file |-> << "respec-", "highlight" >>],
      [method |-> "GET", resourceType |-> "script", host |-> "www.w3.org",
       dir |-> << "Tools", "respec" >>, file |-> << "profile-", "w3c-common", ".js" >>],
      [method |-> "GET", resourceType |-> "script", host |-> "example.org",
       dir |-> << "js", "builds" >>, file |-> << "respec-", "geonovum", ".js" >>],
      [method |-> "GET", resourceType |-> "image", host |-> "example.org",
       dir |-> << "builds" >>, file |-> << "respec-", "logo", ".js" >>] }

\* pathname.match(respecProfileRegex) found nothing.
NoProfile == << >>

\* isRespec() has not run.
NotValidated ==
    [read |-> FALSE, head |-> << >>, complete |-> FALSE, settle |-> 0,
     uiRead |-> FALSE, ui |-> FALSE]

\* Line 240: the milliseconds isRespec() waits for a late ReSpec.
SettleDelay == 2000

Docs == { << "<", "h1", ">" >>, << "<", "p", ">", "%" >> }

Stages == { "navigation", "validation", "extraction", "write" }

\* window.respecVersion: a string, as its characters.
DeveloperEdition == << "Developer Edition" >>
VersionStrings ==
    { << "1", "9", ".", "1", "1", ".", "0" >>,
      << "2", "0", ".", "9", ".", "1" >>,
      << "2", "0", ".", "1", "0", ".", "0" >>,
      << "2", "0", ".", "1", "1", ".", "0" >>,
      << "2", "1", ".", "0", ".", "0" >>,
      DeveloperEdition }

\* A console message of the page: message.type(), message.text() and the
\* values behind message.args().
Undefined == "<undefined>"
BrowserNoise ==
    { [type |-> "error",   text |-> "net::ERR_FAILED", args |-> << >>],
      [type |-> "warning", text |-> "slow preload",    args |-> << >>] }
ScriptMessages ==
    { [type |-> "error",   text |-> "boom", args |-> << "boom" >>],
      [type |-> "warning", text |-> "undefined careful",
                           args |-> << Undefined, "careful" >>],
      [type |-> "warning", text |-> "document.respecDone is deprecated",
                           args |-> << "document.respecDone", "is deprecated" >>],
      [type |-> "log",     text |-> "hello", args |-> << "hello" >>],
      [type |-> "error",   text |-> "", args |-> << >>] }
ConsoleMessages == BrowserNoise \cup ScriptMessages

\* The warning evaluateHTML itself logs on the legacy path (lines 254-257).
YeOldeWarning ==
    [type |-> "warning", text |-> "Ye Olde ReSpec version detected!",
     args |-> << "Ye Olde ReSpec version detected!" >>]

(***************************************************************************)
(* Pure functions of the source.                                           *)
(***************************************************************************)
Max(a, b) == IF a >= b THEN a ELSE b

\* new URL(src): the parts fetchAndWrite reads.
ParseURL(s) ==
    [origin   |-> s[1],
     pathname |-> s[2],
     search   |-> IF Len(s) > 2 THEN s[3] ELSE ""]

\* `${url}`: the serialised URL.
Href(url) ==
    IF url.search = "" THEN << url.origin, url.pathname >>
    ELSE << url.origin, url.pathname, url.search >>

\* Line 99: `${url.origin}${url.pathname}`.
DebugURL(url) == << url.origin, url.pathname >>

\* HttpFailed without the workaround for status 0.
HttpFailedIgnoringStatus(r) == ~r.ok

\* Lines 93-96: !response.ok() && response.status().
HttpFailed(r) == (~r.ok) /\ (r.status # 0)

\* Remaining without the floor of Math.max.
RemainingUnfloored(duration, elapsed) == duration - elapsed

\* Remaining without the deduction of the time spent.
RemainingIsDuration(duration, elapsed) == duration

\* createTimer(duration).remaining when Date.now() - start is elapsed
\* (lines 352-355).
Remaining(duration, elapsed) == Max(0, duration - elapsed)

DigitValue(c) ==
    CASE c = "0" -> 0 [] c = "1" -> 1 [] c = "2" -> 2 [] c = "3" -> 3
      [] c = "4" -> 4 [] c = "5" -> 5 [] c = "6" -> 6 [] c = "7" -> 7
      [] c = "8" -> 8 [] c = "9" -> 9

\* parseInt(str, 10) of a string of digits.
RECURSIVE ParseInt(_)
ParseInt(str) ==
    IF str = << >> THEN 0
    ELSE 10 * ParseInt(SubSeq(str, 1, Len(str) - 1)) + DigitValue(str[Len(str)])

\* str.split(".")
RECURSIVE Split(_)
Split(str) ==
    IF \A i \in 1..Len(str) : str[i] # "."
    THEN << str >>
    ELSE LET k == CHOOSE i \in 1..Len(str) :
                     str[i] = "." /\ \A j \in 1..(i - 1) : str[j] # "."
         IN  << SubSeq(str, 1, k - 1) >> \o Split(SubSeq(str, k + 1, Len(str)))

\* getVersion (lines 287-292).
SentinelMajor == 123456789
GetVersion(str) ==
    IF str = DeveloperEdition THEN << SentinelMajor, 0, 0 >>
    ELSE LET parts == Split(str)
         IN  [i \in 1..Len(parts) |-> ParseInt(parts[i])]

\* IsLegacy with the minor version compared by <=.
IsLegacyOffByOne(v) == v[1] < 20 \/ (v[1] = 20 /\ v[2] <= 10)

\* Line 253: major < 20 || (major === 20 && minor < 10).
IsLegacy(v) == v[1] < 20 \/ (v[1] = 20 /\ v[2] < 10)

\* Lines 253-276: the branch evaluateHTML takes.
ExportPathOf(v) == IF IsLegacy(v) THEN "legacy" ELSE "modern"

\* Lines 262 and 269: the module the branch requires.
ExportModule(path) == IF path = "legacy" THEN "ui/save-html" ELSE "core/exporter"

\* core/exporter's rsDocToDataURL("text/html"): the data URL of the document.
DataPrefix == "data:text/html;charset=utf-8,"
EncodeChar(c) ==
    CASE c = "<" -> "%3C" [] c = ">" -> "%3E" [] c = "%" -> "%25" [] OTHER -> c
RsDocToDataURL(doc) == << DataPrefix >> \o [i \in 1..Len(doc) |-> EncodeChar(doc[i])]

\* Lines 274-275: strip the data URL's prefix, then decodeURIComponent.
StripDataPrefix(dataURL) ==
    IF dataURL # << >> /\ dataURL[1] = DataPrefix THEN Tail(dataURL) ELSE dataURL
DecodeChar(c) ==
    CASE c = "%3C" -> "<" [] c = "%3E" -> ">" [] c = "%25" -> "%" [] OTHER -> c
DecodeURIComponent(str) == [i \in 1..Len(str) |-> DecodeChar(str[i])]

\* What evaluateHTML returns on each path for the rendered document doc.
ExportedHTML(path, doc) ==
    IF path = "legacy" THEN doc
    ELSE DecodeURIComponent(StripDataPrefix(RsDocToDataURL(doc)))

\* attr*='token': the attribute value holds the token.
AttrContains(attr, token) == \E i \in 1..Len(attr) : attr[i] = token

\* HeadQueryMatches that knows only the src attribute.
HeadQueryMatchesSrcOnly(head) ==
    \E i \in 1..Len(head) : AttrContains(head[i].src, "respec")

\* Lines 227-229: document.head.querySelector(query) finds a script.
HeadQueryMatches(head) ==
    \E i \in 1..Len(head) :
        \/ AttrContains(head[i].dataMain, "profile-")
        \/ AttrContains(head[i].src, "respec")

\* pathname.startsWith("/a/b/"): the directories begin with prefix.
PathStartsWith(req, prefix) ==
    /\ Len(req.dir) >= Len(prefix)
    /\ SubSeq(req.dir, 1, Len(prefix)) = prefix

\* pathname.includes("respec-highlight").
IncludesHighlight(req) ==
    \E i \in 1..(Len(req.file) - 1) :
        req.file[i] = "respec-" /\ req.file[i + 1] = "highlight"

\* Line 165: /\/builds\/respec-[\w-]+\.js$/.test(pathname).
IsLocalBuildPath(req) ==
    /\ Len(req.dir) > 0
    /\ req.dir[Len(req.dir)] = "builds"
    /\ Len(req.file) = 3
    /\ req.file[1] = "respec-"
    /\ req.file[3] = ".js"

\* isRespecScript, lines 149-167.
IsRespecScript(req) ==
    /\ req.method = "GET"
    /\ req.resourceType = "script"
    /\ CASE req.host = "www.w3.org" ->
                PathStartsWith(req, << "Tools", "respec" >>) /\ ~IncludesHighlight(req)
         [] req.host = "w3c.github.io" ->
                PathStartsWith(req, << "respec", "builds" >>)
         [] OTHER -> IsLocalBuildPath(req)

\* Lines 176-177: url.pathname.match(/\/(respec-[\w-]+)(?:\.js)?$/), the
\* capture group, or NoProfile where match() returns null.
Profile(req) ==
    IF /\ Len(req.file) \in { 2, 3 }
       /\ req.file[1] = "respec-"
       /\ Len(req.file) = 3 => req.file[3] = ".js"
    THEN << req.file[1], req.file[2] >>
    ELSE NoProfile

\* Line 178: path.join(__dirname, "..", "builds", `${profile}.js`).
LocalPath(profile) == << "builds/" >> \o profile \o << ".js" >>

\* stringifyJSHandle: String(o) in the page (lines 345-347).
StringifyJSHandle(h) == IF h = Undefined THEN "undefined" ELSE h

\* Lines 311-313: the stringified arguments, "undefined" dropped, joined.
MessageText(m) ==
    LET args == [i \in 1..Len(m.args) |-> StringifyJSHandle(m.args[i])]
    IN  SelectSeq(args, LAMBDA a : a # "undefined")

\* IsBrowserNoise that takes only errors for browser noise.
IsBrowserNoiseErrorsOnly(m) ==
    /\ m.type = "error"
    /\ m.text # ""
    /\ Len(m.args) = 0

\* Lines 315-319: the message is a browser error or warning.
IsBrowserNoise(m) ==
    /\ m.type \in { "error", "warning" }
    /\ m.text # ""
    /\ Len(m.args) = 0

\* Line 334: /document\.respecDone/.test(text).
IsRespecDonePolling(text) == \E i \in 1..Len(text) : text[i] = "document.respecDone"

\* The message gets past both filters of the handler and is of a severity
\* the switch of lines 327-340 has a case for.
IsReported(m) ==
    /\ ~IsBrowserNoise(m)
    /\ \/ m.type = "error"
       \/ m.type = "warning" /\ ~IsRespecDonePolling(MessageText(m))

\* FlagsAfter with the break of the "error" case missing.
FlagsAfterFallThrough(flags, type) ==
    CASE type = "error"   -> [error |-> TRUE, warn |-> TRUE]
      [] type = "warning" -> [flags EXCEPT !.warn = TRUE]
      [] OTHER            -> flags

\* Lines 330 and 338: the flag a reported message sets.
FlagsAfter(flags, type) ==
    CASE type = "error"   -> [flags EXCEPT !.error = TRUE]
      [] type = "warning" -> [flags EXCEPT !.warn = TRUE]
      [] OTHER            -> flags

\* Lines 329 and 337: the line a reported message prints.
Printed(m) == << m.type, MessageText(m) >>

\* Lines 105-106.
AbortOnWarning(halt, flags) == halt.haltOnWarn /\ flags.warn

AbortOnError(halt, flags) == halt.haltOnError /\ flags.error
\* ShouldAbort that forgets abortOnWarning.
ShouldAbortOnErrorOnly(halt, flags) == AbortOnError(halt, flags)

\* Line 107.
ShouldAbort(halt, flags) == AbortOnError(halt, flags) \/ AbortOnWarning(halt, flags)

\* DispatchTarget with the cases null and "" exchanged.
DispatchTargetSwapped(o) ==
    CASE o = Null -> "discard"
      [] o = ""   -> "stdout"
      [] OTHER    -> "file"

\* Lines 110-117: where the switch sends the HTML.
DispatchTarget(o) ==
    CASE o = Null -> "stdout"
      [] o = ""   -> "discard"
      [] OTHER    -> "file"

\* writeTo, lines 29-34.
Cwd == "/cwd"

IsAbsolute(p) == p \in { "/tmp/index.html" }

NewFilePath(outPath) == IF IsAbsolute(outPath) THEN << outPath >> ELSE << Cwd, outPath >>

(***************************************************************************)
(* The state machine.                                                      *)
(***************************************************************************)
\* The process has not been ended by process.exit().
ProcessAlive == exitCode = Unset

\* fetchAndWrite has settled its promise, or the process has exited.
RunEnded == pc \in { "resolved", "rejected", "exited" }

\* Something reached standard output or the destination file.
OutputWritten == stdout # Nothing \/ file # NoFile

\* The state right after the call of fetchAndWrite with a timeout among
\* durations and useLocal among locals: line 70 has created the timer,
\* nothing else has happened.
Called(durations, locals) ==
    /\ pc = "launch"
    /\ src \in SrcURLs
    /\ out \in Destinations
    /\ whenToHalt \in [haltOnError : BOOLEAN, haltOnWarn : BOOLEAN]
    /\ timeout \in durations
    /\ useLocal \in locals
    /\ browser = "none"
    /\ page = "none"
    /\ listening = FALSE
    /\ intercepting = FALSE
    /\ requestListener = FALSE
    /\ requests = << >>
    /\ haltFlags = [error |-> FALSE, warn |-> FALSE]
    /\ pending = EmptyBag
    /\ emitted = 0
    /\ delivered = NoMessage
    /\ terminal = << >>
    /\ response = NoResponse
    /\ validation = NotValidated
    /\ isRespecDoc = FALSE
    /\ respecVersion = << >>
    /\ version = << >>
    /\ spent = Unset
    /\ ms = Unset
    /\ readyState = "pending"
    /\ exportPath = "none"
    /\ html = Nothing
    /\ error = NoError
    /\ stdout = Nothing
    /\ file = NoFile
    /\ attempts = [s \in Stages |-> 0]
    /\ succeeded = { }
    /\ result = Nothing
    /\ exitCode = Unset

\* A run without useLocal.
Init == Called(1..MaxTimeout, { FALSE })

\* Lines 72-78: mkdtemp and puppeteer.launch.
Launch ==
    /\ pc = "launch"
    /\ browser' = "open"
    /\ pc' = "newPage"
    /\ UNCHANGED << inputs, interception, page, listening, relay, nav, gen, html, error,
                    outcome, progress >>

\* Lines 85-92: the console relay is registered with fresh halt flags, the
\* URL is parsed and page.goto() is called.
StartNavigation ==
    /\ listening' = TRUE
    /\ haltFlags' = [error |-> FALSE, warn |-> FALSE]
    /\ attempts' = [attempts EXCEPT !["navigation"] = @ + 1]
    /\ pc' = "goto"

\* Lines 81-92: the page is opened; with useLocal, useLocalReSpec is called
\* and awaited; without it, navigation starts.
NewPage ==
    /\ pc = "newPage"
    /\ page' = "open"
    /\ IF useLocal
       THEN /\ pc' = "useLocalReSpec"
            /\ UNCHANGED << listening, haltFlags, attempts >>
       ELSE StartNavigation
    /\ UNCHANGED << inputs, interception, browser, pending, emitted, delivered,
                    terminal, nav, gen, html, error, outcome, succeeded >>

\* UseLocalReSpec that registers the listener and leaves interception off.
UseLocalReSpecListenerOnly ==
    /\ pc = "useLocalReSpec"
    /\ requestListener' = TRUE
    /\ StartNavigation
    /\ UNCHANGED << inputs, intercepting, requests, browser, page, pending,
                    emitted, delivered, terminal, nav, gen, html, error, outcome,
                    succeeded >>

\* Lines 145-169 and 85-92: page.setRequestInterception(true) resolves,
\* requestInterceptor is registered, and navigation starts.
UseLocalReSpec ==
    /\ pc = "useLocalReSpec"
    /\ intercepting' = TRUE
    /\ requestListener' = TRUE
    /\ StartNavigation
    /\ UNCHANGED << inputs, requests, browser, page, pending, emitted, delivered,
                    terminal, nav, gen, html, error, outcome, succeeded >>

\* Line 92: page.goto() resolves with a response.
Goto ==
    /\ pc = "goto"
    /\ \E r \in Responses : response' = r
    /\ pc' = "checkResponse"
    /\ UNCHANGED << inputs, interception, browser, page, listening, relay, validation,
                    isRespecDoc, gen, html, error, outcome, progress >>

\* CheckResponse that goes on to generateHTML without checkIfReSpec.
CheckResponseSkipsValidation ==
    /\ pc = "checkResponse"
    /\ IF HttpFailed(response)
       THEN /\ error' = [kind |-> "http", status |-> response.status,
                         url |-> DebugURL(ParseURL(src))]
            /\ pc' = "finally"
            /\ UNCHANGED progress
       ELSE /\ succeeded' = succeeded \cup { "navigation" }
            /\ attempts' = [attempts EXCEPT !["extraction"] = @ + 1]
            /\ pc' = "getVersion"
            /\ UNCHANGED error
    /\ response' = NoResponse
    /\ UNCHANGED << inputs, interception, browser, page, listening, relay, validation,
                    isRespecDoc, gen, html, outcome >>

\* Lines 93-103: an HTTP error is thrown, or checkIfReSpec is called.
CheckResponse ==
    /\ pc = "checkResponse"
    /\ IF HttpFailed(response)
       THEN /\ error' = [kind |-> "http", status |-> response.status,
                         url |-> DebugURL(ParseURL(src))]
            /\ pc' = "finally"
            /\ UNCHANGED progress
       ELSE /\ succeeded' = succeeded \cup { "navigation" }
            /\ attempts' = [attempts EXCEPT !["validation"] = @ + 1]
            /\ pc' = "checkIfReSpec"
            /\ UNCHANGED error
    /\ response' = NoResponse
    /\ UNCHANGED << inputs, interception, browser, page, listening, relay, validation,
                    isRespecDoc, gen, html, outcome >>

\* NotReSpec that lets every document pass.
NotReSpecNever(isDoc) == FALSE

\* Lines 216-217: the test that makes checkIfReSpec throw.
NotReSpec(isDoc) == ~isDoc

\* Lines 227-230: isRespec() queries the head of the document and returns
\* true at once when a ReSpec script is there; otherwise it goes on to wait.
IsRespecQuery ==
    /\ pc = "checkIfReSpec"
    /\ \E h \in Heads :
          /\ validation' = [validation EXCEPT !.read = TRUE, !.head = h]
          /\ IF HeadQueryMatches(h)
             THEN isRespecDoc' = TRUE /\ pc' = "isRespecDone"
             ELSE isRespecDoc' = isRespecDoc /\ pc' = "awaitComplete"
    /\ UNCHANGED << inputs, interception, browser, page, listening, relay, response, gen,
                    html, error, outcome, progress >>

\* Lines 231-238: document.readyState is "complete".
DocumentComplete ==
    /\ pc = "awaitComplete"
    /\ validation' = [validation EXCEPT !.complete = TRUE]
    /\ pc' = "settle"
    /\ UNCHANGED << inputs, interception, browser, page, listening, relay, response,
                    isRespecDoc, gen, html, error, outcome, progress >>

\* Lines 239-242: the two seconds are over and isRespec() returns whether
\* the element respec-ui is in the document now.
SettleElapsed ==
    /\ pc = "settle"
    /\ \E present \in BOOLEAN :
          /\ validation' = [validation EXCEPT !.settle = SettleDelay,
                                              !.uiRead = TRUE, !.ui = present]
          /\ isRespecDoc' = present
    /\ pc' = "isRespecDone"
    /\ UNCHANGED << inputs, interception, browser, page, listening, relay, response, gen,
                    html, error, outcome, progress >>

\* Lines 103, 215-224: page.evaluate(isRespec) has resolved; checkIfReSpec
\* throws or generateHTML is called.
CheckIfReSpec ==
    /\ pc = "isRespecDone"
    /\ IF NotReSpec(isRespecDoc)
       THEN /\ error' = [kind |-> "notReSpec"]
            /\ pc' = "finally"
            /\ UNCHANGED progress
       ELSE /\ succeeded' = succeeded \cup { "validation" }
            /\ attempts' = [attempts EXCEPT !["extraction"] = @ + 1]
            /\ pc' = "getVersion"
            /\ UNCHANGED error
    /\ validation' = NotValidated
    /\ UNCHANGED << inputs, interception, browser, page, listening, relay, response,
                    isRespecDoc, gen, html, outcome >>

\* Lines 196-197: window.respecVersion exists and getVersion() parses it;
\* or page.waitForFunction() or page.evaluate(getVersion) rejects, and the
\* error leaves generateHTML as it is.
ReadVersion ==
    /\ pc = "getVersion"
    /\ \E o \in { "ok", "waitForFunction", "getVersion" }, v \in VersionStrings :
          IF o = "ok"
          THEN /\ respecVersion' = v
               /\ version' = GetVersion(v)
               /\ pc' = "evaluate"
               /\ UNCHANGED error
          ELSE /\ error' = [kind |-> o]
               /\ pc' = "finally"
               /\ UNCHANGED << respecVersion, version >>
    /\ UNCHANGED << inputs, interception, browser, page, listening, relay, nav, spent, ms,
                    readyState, exportPath, html, outcome, progress >>

\* Lines 352-355: the getter of the timer is read when Date.now() - start
\* is elapsed.
ReadRemaining(elapsed) ==
    /\ spent' = elapsed
    /\ ms' = Remaining(timeout, elapsed)

\* Lines 199 and 250: the getter of the timer is read, after some time has
\* gone by since line 70, and evaluateHTML arms
\* timeout(document.respecIsReady, timer.remaining).
EvaluateStart ==
    /\ pc = "evaluate"
    /\ \E elapsed \in 0..MaxSpent : ReadRemaining(elapsed)
    /\ pc' = "awaitReady"
    /\ UNCHANGED << inputs, interception, browser, page, listening, relay, nav,
                    respecVersion, version, readyState, exportPath, html, error,
                    outcome, progress >>

\* Lines 250-268: document.respecIsReady resolves first; the export path is
\* chosen, the legacy path logs its warning, and the module is requested.
ReadyResolve ==
    /\ pc = "awaitReady"
    /\ readyState' = "resolved"
    /\ spent' = Unset
    /\ ms' = Unset
    /\ exportPath' = ExportPathOf(version)
    /\ pending' = IF IsLegacy(version) THEN pending (+) SetToBag({ YeOldeWarning })
                  ELSE pending
    /\ delivered' = IF IsLegacy(version) THEN YeOldeWarning ELSE delivered
    /\ pc' = "export"
    /\ UNCHANGED << inputs, interception, browser, page, listening, haltFlags, emitted,
                    terminal, nav, respecVersion, version, html,
                    error, outcome, progress >>

\* Line 205: where the message of generateHTML sends the reader.
BugLink == "https://github.com/w3c/respec/"

\* GenerateError that throws what it caught.
GenerateErrorRethrows(url, v, err) == err

\* Lines 200-208: generateHTML catches what page.evaluate rejected with and
\* throws it wrapped in its diagnostic message.
GenerateError(url, v, err) ==
    [kind |-> "generate", url |-> Href(url), version |-> v, bugLink |-> BugLink,
     cause |-> err]

\* page.evaluate(evaluateHTML) rejects with err and generateHTML rethrows.
EvaluateRejects(err) ==
    /\ error' = GenerateError(ParseURL(src), version, err)
    /\ respecVersion' = << >>
    /\ version' = << >>
    /\ spent' = Unset
    /\ ms' = Unset
    /\ exportPath' = "none"
    /\ pc' = "finally"

\* Line 280: document.respecIsReady rejects first.
ReadyReject ==
    /\ pc = "awaitReady"
    /\ readyState' = "rejected"
    /\ EvaluateRejects([kind |-> "readyRejected"])
    /\ UNCHANGED << inputs, interception, browser, page, listening, relay, nav, html, outcome,
                    progress >>

\* TimerFire that arms no timer for a wait of 0 ms.
TimerFireUnlessZero ==
    /\ pc = "awaitReady"
    /\ ms > 0
    /\ EvaluateRejects([kind |-> "timeout", ms |-> ms])
    /\ UNCHANGED << inputs, interception, browser, page, listening, relay, nav, readyState,
                    html, outcome, progress >>

\* Lines 281-282: the setTimeout of ms milliseconds fires first and rejects
\* with its message.
TimerFire ==
    /\ pc = "awaitReady"
    /\ EvaluateRejects([kind |-> "timeout", ms |-> ms])
    /\ UNCHANGED << inputs, interception, browser, page, listening, relay, nav, readyState,
                    html, outcome, progress >>

\* Lines 261-275: the module loads and the export function returns, or the
\* load fails, or the export function throws.
Export ==
    /\ pc = "export"
    /\ \E o \in { "ok", "moduleLoad", "exportThrew" }, doc \in Docs :
          IF o = "ok"
          THEN /\ html' = ExportedHTML(exportPath, doc)
               /\ pc' = "generated"
               /\ UNCHANGED << error, respecVersion, version, spent, ms,
                               exportPath >>
          ELSE /\ EvaluateRejects([kind |-> o, module |-> ExportModule(exportPath)])
               /\ UNCHANGED html
    /\ UNCHANGED << inputs, interception, browser, page, listening, relay, nav, readyState,
                    outcome, progress >>

\* Lines 104-118: generateHTML returns; the halt flags are tested; the switch
\* writes to standard output, does nothing, or calls writeTo, which runs up to
\* its await of writeFile.
AfterGenerate ==
    /\ pc = "generated"
    /\ respecVersion' = << >>
    /\ version' = << >>
    /\ succeeded' = succeeded \cup { "extraction" }
    /\ IF ShouldAbort(whenToHalt, haltFlags)
       THEN /\ exitCode' = 1
            /\ pc' = "exited"
            /\ UNCHANGED << stdout, file, attempts >>
       ELSE /\ stdout' = IF DispatchTarget(out) = "stdout" THEN html ELSE stdout
            /\ attempts' = IF DispatchTarget(out) = "file"
                           THEN [attempts EXCEPT !["write"] = @ + 1]
                           ELSE attempts
            /\ pc' = IF DispatchTarget(out) = "file" THEN "writeFile" ELSE "grace"
            /\ UNCHANGED << file, exitCode >>
    /\ exportPath' = "none"
    /\ UNCHANGED << inputs, interception, browser, page, listening, relay, nav, spent, ms,
                    readyState, html, error, result >>

\* The line console.error(err, err.stack) prints for a failed writeFile.
WriteErrorLine == << "writeTo", << "EACCES" >> >>

\* WriteFails that prints the error and lets writeTo return.
WriteFailsAndReturns ==
    /\ terminal' = Append(terminal, WriteErrorLine)
    /\ pc' = "grace"
    /\ UNCHANGED << exitCode, file, succeeded >>

\* Lines 37-40: the catch of writeTo prints the error and exits with 1.
WriteFails ==
    /\ terminal' = Append(terminal, WriteErrorLine)
    /\ exitCode' = 1
    /\ pc' = "exited"
    /\ UNCHANGED << file, succeeded >>

\* Lines 35-40: writeFile stores the data, or fails: the error is printed and
\* the process exits.
WriteFile ==
    /\ pc = "writeFile"
    /\ \E stored \in BOOLEAN :
          IF stored
          THEN /\ file' = [path |-> NewFilePath(out), data |-> html]
               /\ succeeded' = succeeded \cup { "write" }
               /\ pc' = "grace"
               /\ UNCHANGED << terminal, exitCode >>
          ELSE WriteFails
    /\ UNCHANGED << inputs, interception, browser, page, listening, haltFlags, pending,
                    emitted, delivered, nav, gen, html, error, stdout, result,
                    attempts >>

\* Line 120: the one-second wait before the page is closed.
Grace ==
    /\ pc = "grace"
    /\ pc' = "pageClose"
    /\ UNCHANGED << inputs, interception, browser, page, listening, relay, nav, gen, html,
                    error, outcome, progress >>

\* PageClose that does not wait for the second of line 120 to be over.
PageCloseBeforeGrace ==
    /\ pc \in { "grace", "pageClose" }
    /\ page' = "closed"
    /\ pc' = "finally"
    /\ UNCHANGED << inputs, interception, browser, listening, relay, nav, gen, html, error,
                    outcome, progress >>

\* Line 121: page.close().
PageClose ==
    /\ pc = "pageClose"
    /\ page' = "closed"
    /\ pc' = "finally"
    /\ UNCHANGED << inputs, interception, browser, listening, relay, nav, gen, html, error,
                    outcome, progress >>

\* Lines 122-125: the finally block closes the browser; then the promise of
\* fetchAndWrite resolves with the HTML or rejects with the error.
BrowserClose ==
    /\ pc = "finally"
    /\ browser' = "closed"
    /\ page' = "closed"
    /\ IF error = NoError
       THEN result' = html /\ pc' = "resolved"
       ELSE result' = result /\ pc' = "rejected"
    /\ UNCHANGED << inputs, interception, listening, relay, nav, gen, html, error, stdout,
                    file, exitCode, progress >>

\* Lines 315-340: the body of the console handler, once the arguments are
\* stringified.
HandleConsoleMessage(m) ==
    IF IsReported(m)
    THEN /\ terminal' = Append(terminal, Printed(m))
         /\ haltFlags' = FlagsAfter(haltFlags, m.type)
    ELSE UNCHANGED << terminal, haltFlags >>

\* The page emits a console message and the listener of line 310 is called.
\* With no arguments to stringify, the handler runs to its end before any
\* other callback; otherwise it awaits the stringification.
EmitConsole ==
    /\ ProcessAlive
    /\ listening
    /\ page = "open"
    /\ pc \notin { "launch", "newPage", "useLocalReSpec" }
    /\ emitted < MaxMsgs
    /\ emitted' = emitted + 1
    /\ \E m \in ConsoleMessages :
          /\ delivered' = m
          /\ IF m.args = << >>
             THEN HandleConsoleMessage(m) /\ UNCHANGED pending
             ELSE /\ pending' = pending (+) SetToBag({ m })
                  /\ UNCHANGED << terminal, haltFlags >>
    /\ UNCHANGED << pc, inputs, interception, browser, page, listening, nav, gen, html,
                    error, outcome, progress >>

\* Line 311 resolves: the handler goes on with the stringified arguments.
\* Once the page is closed the stringification rejects and the handler ends.
HandlerResume ==
    /\ ProcessAlive
    /\ ~RunEnded
    /\ \E m \in BagToSet(pending) :
          /\ pending' = pending (-) SetToBag({ m })
          /\ IF page = "open"
             THEN HandleConsoleMessage(m)
             ELSE UNCHANGED << terminal, haltFlags >>
    /\ UNCHANGED << pc, inputs, interception, browser, page, listening, emitted, delivered,
                    nav, gen, html, error, outcome, progress >>

\* The request as requestInterceptor leaves it at its first await: one that
\* is not for ReSpec is continued (line 171); for one without a profile name
\* line 177 throws a TypeError; otherwise readFile is called (line 182).
Intercepted(req) ==
    [req       |-> req,
     continued |-> IF IsRespecScript(req) THEN 0 ELSE 1,
     answered  |-> 0,
     body      |-> << >>,
     phase     |-> IF ~IsRespecScript(req) THEN "done"
                   ELSE IF Profile(req) = NoProfile THEN "threw"
                   ELSE "reading"]

\* The request that no listener is called for.
Unhandled(req) ==
    [req |-> req, continued |-> 0, answered |-> 0, body |-> << >>,
     phase |-> "unhandled"]

\* The page issues a request while interception is enabled.  The listener of
\* line 169 handles it, unless line 185 has removed the listener already.
RequestArrives ==
    /\ ProcessAlive
    /\ page = "open"
    /\ pc \notin { "launch", "newPage", "useLocalReSpec" }
    /\ intercepting
    /\ Len(requests) < MaxReqs
    /\ \E req \in Requests :
          requests' = Append(requests, IF requestListener THEN Intercepted(req)
                                       ELSE Unhandled(req))
    /\ UNCHANGED << pc, inputs, intercepting, requestListener, browser, page,
                    listening, relay, nav, gen, html, error, outcome, progress >>

\* Lines 180-183: readFile resolves and request.respond() is called with the
\* local build.  With interception switched off in the meantime by another
\* handler, whether the browser still takes the answer is open.
FileRead ==
    /\ ProcessAlive
    /\ page = "open"
    /\ \E i \in 1..Len(requests), taken \in BOOLEAN :
          /\ requests[i].phase = "reading"
          /\ intercepting => taken
          /\ requests' = [requests EXCEPT
                 ![i].phase = "responding",
                 ![i].answered = IF taken THEN @ + 1 ELSE @,
                 ![i].body = IF taken THEN LocalPath(Profile(requests[i].req)) ELSE @]
    /\ UNCHANGED << pc, inputs, intercepting, requestListener, browser, page,
                    listening, relay, nav, gen, html, error, outcome, progress >>

\* Lines 180-186: request.respond() resolves; the listener is removed and
\* page.setRequestInterception(false) is called.
Responded ==
    /\ ProcessAlive
    /\ page = "open"
    /\ \E i \in 1..Len(requests) :
          /\ requests[i].phase = "responding"
          /\ requests' = [requests EXCEPT ![i].phase = "disabling"]
    /\ requestListener' = FALSE
    /\ UNCHANGED << pc, inputs, intercepting, browser, page, listening, relay,
                    nav, gen, html, error, outcome, progress >>

\* Line 186: page.setRequestInterception(false) resolves.
InterceptionOff ==
    /\ ProcessAlive
    /\ page = "open"
    /\ \E i \in 1..Len(requests) :
          /\ requests[i].phase = "disabling"
          /\ requests' = [requests EXCEPT ![i].phase = "done"]
    /\ intercepting' = FALSE
    /\ UNCHANGED << pc, inputs, requestListener, browser, page, listening,
                    relay, nav, gen, html, error, outcome, progress >>

Next ==
    \/ Launch
    \/ NewPage
    \/ Goto
    \/ CheckResponse
    \/ IsRespecQuery
    \/ DocumentComplete
    \/ SettleElapsed
    \/ CheckIfReSpec
    \/ ReadVersion
    \/ EvaluateStart
    \/ ReadyResolve
    \/ ReadyReject
    \/ TimerFire
    \/ Export
    \/ AfterGenerate
    \/ WriteFile
    \/ Grace
    \/ PageClose
    \/ BrowserClose
    \/ EmitConsole
    \/ HandlerResume

Spec == Init /\ [][Next]_vars

\* The event loop runs every callback that is ready, and time passes.
FairSpec ==
    /\ Spec
    /\ WF_vars(TimerFire)
    /\ WF_vars(BrowserClose)

\* Runs with or without useLocal, on a page that logs nothing to the console.
NextLocal ==
    \/ Launch
    \/ NewPage
    \/ UseLocalReSpec
    \/ Goto
    \/ CheckResponse
    \/ IsRespecQuery
    \/ DocumentComplete
    \/ SettleElapsed
    \/ CheckIfReSpec
    \/ ReadVersion
    \/ EvaluateStart
    \/ ReadyResolve
    \/ ReadyReject
    \/ TimerFire
    \/ Export
    \/ AfterGenerate
    \/ WriteFile
    \/ Grace
    \/ PageClose
    \/ BrowserClose
    \/ RequestArrives
    \/ FileRead
    \/ Responded
    \/ InterceptionOff

\* The arguments interception does not depend on are fixed: the output goes
\* to a file and the caller asked for no halt.
InitLocal ==
    /\ Called({ MaxTimeout }, BOOLEAN)
    /\ out \notin { Null, "" }
    /\ whenToHalt = [haltOnError |-> FALSE, haltOnWarn |-> FALSE]

SpecLocal == InitLocal /\ [][NextLocal]_vars

\* The timer of line 70 on its own: timer.remaining is read again and again
\* while Date.now() goes on, and nothing else happens.
TimerRead ==
    /\ \E elapsed \in Max(spent, 0)..(MaxDuration + 1) : ReadRemaining(elapsed)
    /\ UNCHANGED << pc, inputs, interception, browser, page, listening, relay, nav,
                    respecVersion, version, readyState, exportPath, html, error,
                    outcome, progress >>

NextTimer == TimerRead

SpecTimer == Called(0..MaxDuration, { FALSE }) /\ [][NextTimer]_vars

(***************************************************************************)
(* The claims.                                                             *)
(***************************************************************************)
\* process.exit(1) of line 108 ended the run: no write was attempted.
Halted == pc = "exited" /\ attempts["write"] = 0

\* process.exit(1) of line 39 ended the run.
WriteFailed == pc = "exited" /\ attempts["write"] = 1

\* fetchAndWrite leaves its await of generateHTML in this step.
LeavesGenerate == pc = "generated" /\ pc' # "generated"

\* C1: whenever a run in which the browser was launched has ended, by
\* resolving, by rejecting or by process.exit(), the browser has been closed.
C1_BrowserClosedOnEveryPath ==
    (RunEnded /\ browser # "none") => browser = "closed"

\* The step that follows extraction exits with status 1 and without output
\* if a flag the caller opted in for is set, and goes on to dispatch if not.
C2_HaltStep ==
    LeavesGenerate =>
        IF \/ whenToHalt.haltOnError /\ haltFlags.error
           \/ whenToHalt.haltOnWarn /\ haltFlags.warn
        THEN /\ pc' = "exited"
             /\ exitCode' = 1
             /\ stdout' = Nothing
             /\ file' = NoFile
        ELSE /\ pc' \in { "grace", "writeFile" }
             /\ exitCode' = Unset

\* C2: the halt flags are tested in the step that follows extraction, before
\* any output exists; if a flag the caller opted in for is set, that step
\* exits with status 1 and writes nothing; otherwise it goes on to dispatch.
C2_HaltBeforeOutput ==
    /\ [](pc \in { "launch", "newPage", "goto", "checkResponse", "checkIfReSpec",
                   "awaitComplete", "settle", "isRespecDone",
                   "getVersion", "evaluate", "awaitReady", "export", "generated" }
            => ~OutputWritten)
    /\ [](pc = "generated" => html # Nothing)
    /\ [](Halted => ~OutputWritten /\ exitCode = 1)
    /\ [][C2_HaltStep]_vars

\* A run that halted on a warning the relay had flagged, with nothing written.
C2_Witness ==
    /\ Halted
    /\ whenToHalt.haltOnWarn
    /\ ~whenToHalt.haltOnError
    /\ haltFlags.warn
    /\ ~OutputWritten

\* The relay's listener was called with a message that passes its filters.
Observed(type) ==
    \/ \E m \in BagToSet(pending) : m.type = type /\ IsReported(m)
    \/ \E i \in 1..Len(terminal) : terminal[i][1] = type

\* C3: when the caller opted in and the relay has observed a genuine error
\* (resp. warning) by the time extraction is over, fetchAndWrite exits with
\* status 1 and produces no output, whatever the handler has got to.
C3_HaltOnEveryObserved ==
    [][ ( /\ LeavesGenerate
          /\ \/ whenToHalt.haltOnError /\ Observed("error")
             \/ whenToHalt.haltOnWarn /\ Observed("warning") )
        => ( /\ pc' = "exited"
             /\ exitCode' = 1
             /\ stdout' = Nothing
             /\ file' = NoFile ) ]_vars

\* C4: a failed stage ends the run with a rejection and without output or
\* result; no stage is started twice; output implies that navigation,
\* validation and extraction each ran once and succeeded.
C4_FailureIsTerminal ==
    /\ error # NoError =>
          /\ pc \in { "finally", "rejected" }
          /\ ~OutputWritten
          /\ result = Nothing
    /\ pc = "rejected" => error # NoError
    /\ pc = "resolved" => error = NoError
    /\ \A s \in Stages : attempts[s] <= 1
    /\ OutputWritten =>
          /\ \A s \in { "navigation", "validation", "extraction" } :
                attempts[s] = 1 /\ s \in succeeded
          /\ isRespecDoc
          /\ readyState = "resolved"
          /\ html # Nothing

\* A run that was rejected because the readiness wait timed out.
C4_Witness ==
    /\ pc = "rejected"
    /\ error.kind = "generate"
    /\ error.cause.kind = "timeout"
    /\ attempts["extraction"] = 1
    /\ ~OutputWritten

\* What C5 says of the three destinations, once dispatch is over.
C5_Dispatched ==
    /\ out = Null => stdout = html /\ file = NoFile
    /\ out = "" => stdout = Nothing /\ file = NoFile
    /\ out \notin { Null, "" } =>
          /\ file = [path |-> << Cwd, out >>, data |-> html]
          /\ stdout = Nothing

C6_ResponseStep ==
    (pc = "checkResponse" /\ pc' # "checkResponse") =>
        /\ (pc' = "finally" /\ error'.kind = "http")
              <=> (~response.ok /\ response.status # 0)
        /\ response.status = 0 => (pc' = "checkIfReSpec" /\ error' = NoError)
        /\ error'.kind # "http" => (pc' = "checkIfReSpec" /\ error' = NoError)
        /\ error'.kind = "http" =>
              /\ error'.status = response.status
              /\ error'.url = << src[1], src[2] >>
              /\ \A i \in 1..Len(error'.url) : error'.url[i] # src[3]

\* C6: the step that tests the response throws the HTTP error exactly when
\* the response is not ok and its status is not 0; status 0 always passes;
\* the error names origin and pathname only, never the query string, and
\* after it neither validation nor extraction is ever started.
C6_HttpError ==
    /\ [](error.kind = "http" =>
             /\ pc \in { "finally", "rejected" }
             /\ attempts["validation"] = 0
             /\ attempts["extraction"] = 0
             /\ \A i \in 1..Len(error.url) : error.url[i] # "?apiKey=secret")
    /\ [][C6_ResponseStep]_vars

\* A run rejected with the HTTP error of a 404, reported without the query.
C6_Witness ==
    /\ pc = "rejected"
    /\ error.kind = "http"
    /\ error.status = 404
    /\ error.url = << "https://example.org", "/spec/index.html" >>
    /\ src[3] = "?apiKey=secret"

\* The error of the run is the timeout of the readiness wait.
IsTimeoutError(e) == e.kind = "generate" /\ e.cause.kind = "timeout"

\* C7 as stated: the timeout message carries the configured timeout.
C7_MessageCarriesConfigured ==
    IsTimeoutError(error) => error.cause.ms = timeout

\* C7, amended: when the timer fires before the readiness promise settles,
\* the run fails with a timeout error whose message carries the time that
\* remained of the configured timeout when extraction started,
\* max(0, timeout - time spent), for every timeout and every time spent.
C7_MessageCarriesRemaining ==
    [][ (pc = "awaitReady" /\ IsTimeoutError(error')) =>
           /\ pc' = "finally"
           /\ readyState' = "pending"
           /\ spent \in 0..MaxSpent
           /\ error'.cause.ms = IF spent < timeout THEN timeout - spent ELSE 0 ]_vars

\* A run rejected by the timeout with 1 ms named in the message, of 2 configured.
C7_Witness ==
    /\ pc = "rejected"
    /\ IsTimeoutError(error)
    /\ timeout = 2
    /\ error.cause.ms = 1

\* C8: if document.respecIsReady never settles, a run that waits for it is
\* eventually rejected with the timeout error, with nothing written.
C8_NoHang ==
    ([](readyState = "pending")) =>
        ( (pc = "awaitReady")
            ~> (pc = "rejected" /\ IsTimeoutError(error) /\ ~OutputWritten
                  /\ browser = "closed") )

\* A run rejected by the timeout while the readiness promise is still pending.
C8_Witness ==
    /\ pc = "rejected"
    /\ IsTimeoutError(error)
    /\ readyState = "pending"
    /\ ~OutputWritten

\* (major, minor, patch) of a is older than that of b.
LexLess(a, b) ==
    \/ a[1] < b[1]
    \/ a[1] = b[1] /\ a[2] < b[2]
    \/ a[1] = b[1] /\ a[2] = b[2] /\ a[3] < b[3]

\* C9: once the readiness wait is over, evaluateHTML is in exactly one of the
\* two export branches: the legacy one if and only if the parsed version
\* triple is older than 20.10.0; "Developer Edition" parses to the sentinel
\* triple and takes the modern branch.
C9_ExportPathByVersion ==
    pc \in { "export", "generated" } =>
        /\ Len(version) = 3
        /\ exportPath \in { "legacy", "modern" }
        /\ exportPath = "legacy" <=> LexLess(version, << 20, 10, 0 >>)
        /\ respecVersion = DeveloperEdition =>
              (version = << 123456789, 0, 0 >> /\ exportPath = "modern")
        /\ respecVersion = << "2", "0", ".", "1", "0", ".", "0" >> =>
              (version = << 20, 10, 0 >> /\ exportPath = "modern")

\* Version 20.9.1 in the legacy branch.
C9_Witness ==
    /\ pc = "export"
    /\ respecVersion = << "2", "0", ".", "9", ".", "1" >>
    /\ version = << 20, 9, 1 >>
    /\ exportPath = "legacy"

\* What C10 says the handler does with message m.
C10_Effect(m) ==
    IF IsBrowserNoise(m) \/ (m.type = "warning" /\ IsRespecDonePolling(MessageText(m)))
    THEN TRUE
    ELSE CASE m.type = "error" ->
                /\ haltFlags' = [error |-> TRUE, warn |-> haltFlags.warn]
                /\ terminal' = Append(terminal, << "error", MessageText(m) >>)
           [] m.type = "warning" ->
                /\ haltFlags' = [error |-> haltFlags.error, warn |-> TRUE]
                /\ terminal' = Append(terminal, << "warning", MessageText(m) >>)
           [] OTHER ->
                /\ haltFlags' = haltFlags
                /\ terminal' = terminal

\* A step of the relay does to the flags what C10 says, and no other step
\* changes them.
C10_RelayStep ==
    /\ \A m \in BagToSet(pending) :
          (pending' = pending (-) SetToBag({ m }) /\ page = "open") => C10_Effect(m)
    /\ (emitted' = emitted + 1 /\ pending' = pending) =>
          \E m \in ConsoleMessages : m.args = << >> /\ C10_Effect(m)
    /\ haltFlags' # haltFlags =>
          \/ emitted' = emitted + 1 /\ pending' = pending
          \/ \E m \in BagToSet(pending) : pending' = pending (-) SetToBag({ m })
    /\ haltFlags.error => haltFlags'.error
    /\ haltFlags.warn => haltFlags'.warn

\* C10: the handler of a genuine error sets the error flag only, that of a
\* genuine warning the warning flag only, each printing one line; a message
\* of another severity changes nothing; the flags change in no other step
\* and never go back to false.
C10_RelayFlags == [][C10_RelayStep]_vars

\* The relay has handled a genuine warning and then a genuine error.
C10_Witness ==
    /\ haltFlags = [error |-> TRUE, warn |-> TRUE]
    /\ Len(terminal) = 2
    /\ terminal[1][1] = "warning"
    /\ terminal[2] = << "error", << "boom" >> >>

\* The listener was called with a message in this step and, having nothing
\* to stringify, ran its handler to the end.
C11_HandledAtOnce == emitted' = emitted + 1 /\ pending' = pending

\* What C11 takes for suppressed: a browser-level error or warning, which
\* has a raw text and no structured arguments, or a warning whose printed
\* text holds document.respecDone.
C11_Suppressed(m) ==
    \/ /\ m.type \in { "error", "warning" }
       /\ m.text # ""
       /\ m.args = << >>
    \/ /\ m.type = "warning"
       /\ \E i \in 1..Len(m.args) : m.args[i] = "document.respecDone"

\* C11: a suppressed message, that is an error or warning with a non-empty
\* raw text and no structured arguments, or a warning whose text matches
\* document.respecDone, is never printed and never sets a halt flag.
C11_SuppressedLeaveNoTrace ==
    [][ /\ (C11_HandledAtOnce /\ C11_Suppressed(delivered')) =>
              UNCHANGED << terminal, haltFlags >>
        /\ \A m \in BagToSet(pending) :
              (pending' = pending (-) SetToBag({ m }) /\ C11_Suppressed(m)) =>
                  UNCHANGED << terminal, haltFlags >>
      ]_vars

\* The relay was called with a browser-level warning, handled it, and has
\* printed nothing and set no flag.
C11_Witness ==
    /\ delivered.type = "warning"
    /\ delivered.args = << >>
    /\ delivered.text # ""
    /\ emitted = 1
    /\ pending = EmptyBag
    /\ terminal = << >>
    /\ haltFlags = [error |-> FALSE, warn |-> FALSE]

\* writeFile fails in this step: the await of line 36 ends and nothing is
\* stored at the destination.
C12_WriteFailsNow == pc = "writeFile" /\ pc' # "writeFile" /\ file' = NoFile

\* The error of a failed write has been printed.
C12_WriteErrorPrinted == \E i \in 1..Len(terminal) : terminal[i] = WriteErrorLine

C19_ScriptInHead(head) ==
    \E i \in 1..Len(head) :
        \/ \E j \in 1..Len(head[i].dataMain) : head[i].dataMain[j] = "profile-"
        \/ \E j \in 1..Len(head[i].src) : head[i].src[j] = "respec"

\* What isRespec() has done by the time it returns.
C19_Verdict ==
    pc = "isRespecDone" =>
        /\ validation.read
        /\ IF C19_ScriptInHead(validation.head)
           THEN /\ isRespecDoc
                /\ ~validation.complete
                /\ validation.settle = 0
                /\ ~validation.uiRead
           ELSE /\ validation.complete
                /\ validation.settle = 2000
                /\ validation.uiRead
                /\ isRespecDoc <=> validation.ui

\* The waits come in order: readiness of the document, then the two seconds,
\* then the look for respec-ui.
C19_WaitsInOrder ==
    /\ pc = "settle" => (validation.complete /\ validation.settle = 0 /\ ~validation.uiRead)
    /\ pc = "awaitComplete" => (~validation.complete /\ ~validation.uiRead)
    /\ validation.uiRead => (validation.complete /\ validation.settle = 2000)

\* checkIfReSpec acts on the verdict.
C19_VerdictStep ==
    (pc = "isRespecDone" /\ pc' # "isRespecDone") =>
        IF isRespecDoc
        THEN pc' = "getVersion" /\ error' = NoError
        ELSE /\ error' = [kind |-> "notReSpec"]
             /\ pc' = "finally"
             /\ attempts'["extraction"] = 0

\* C19: a document is accepted at once when its head holds a ReSpec script;
\* otherwise validation waits for the document to be complete, then two
\* seconds, and accepts iff respec-ui is present then; a document that is
\* not accepted aborts the run with the not-a-ReSpec error and extraction
\* is never started.
C19_DocumentKindValidation ==
    /\ [](C19_Verdict /\ C19_WaitsInOrder)
    /\ [][C19_VerdictStep]_vars
    /\ [](error.kind = "notReSpec" =>
              /\ attempts["extraction"] = 0
              /\ html = Nothing
              /\ pc \in { "finally", "rejected" })

\* A document without a ReSpec script in its head, accepted after both
\* waits because respec-ui had appeared.
C19_Witness ==
    /\ pc = "isRespecDone"
    /\ ~C19_ScriptInHead(validation.head)
    /\ validation.head # << >>
    /\ validation.settle = 2000
    /\ validation.ui
    /\ isRespecDoc

\* The ways page.evaluate(evaluateHTML) fails.
C20_EvaluationErrors == { "timeout", "readyRejected", "moduleLoad", "exportThrew" }

\* The errors of generateHTML raised before the evaluation.
C20_EarlyErrors == { "waitForFunction", "getVersion" }

\* The error in flight, when it comes from the evaluation, is the wrapper
\* with its context; when it comes from before, it is the bare error.
C20_ErrorShape ==
    /\ error.kind \notin C20_EvaluationErrors
    /\ error.kind = "generate" =>
          /\ error.cause.kind \in C20_EvaluationErrors
          /\ error.url = src
          /\ Len(error.version) = 3
          /\ error.bugLink = "https://github.com/w3c/respec/"
          /\ pc \in { "finally", "rejected" }
          /\ ~OutputWritten
    /\ error.kind \in C20_EarlyErrors =>
          /\ DOMAIN error = { "kind" }
          /\ pc \in { "finally", "rejected" }
          /\ ~OutputWritten

\* Where each kind of error is raised.
C20_RaiseStep ==
    /\ (pc \in { "awaitReady", "export" } /\ error' # NoError) =>
          /\ error'.kind = "generate"
          /\ error'.version = version
          /\ pc' = "finally"
    /\ (pc = "getVersion" /\ error' # NoError) =>
          /\ error'.kind \in C20_EarlyErrors
          /\ pc' = "finally"
    /\ (error' # error /\ error'.kind = "generate") => pc \in { "awaitReady", "export" }

\* C20: every error of the in-page extraction evaluation (timeout, rejected
\* readiness, failed module load, throwing export) is caught and raised again
\* as one error carrying the source URL, the detected version, the bug link
\* and the original error, and the run aborts; the errors of waiting for and
\* reading the version are not wrapped.
C20_EvaluationErrorsWrapped == []C20_ErrorShape /\ [][C20_RaiseStep]_vars

\* A run rejected with the wrapper around an export function that threw.
C20_Witness ==
    /\ pc = "rejected"
    /\ error.kind = "generate"
    /\ error.cause.kind = "exportThrew"
    /\ error.url = src

\* The order of the steps that end a successful run.
C18_TeardownStep ==
    /\ (pc' = "grace" /\ pc # "grace") =>
          /\ pc \in { "generated", "writeFile" }
          /\ out = Null => stdout' = html
          /\ out \notin { Null, "" } => file'.data = html
    /\ (pc = "grace" /\ pc' # "grace") => (pc' = "pageClose" /\ page' = "open")
    /\ (pc' = "pageClose" /\ pc # "pageClose") => pc = "grace"
    /\ (page = "open" /\ page' = "closed") => pc \in { "pageClose", "finally" }
    /\ (pc = "pageClose" /\ pc' # "pageClose") =>
          (pc' = "finally" /\ page' = "closed" /\ browser' = "open")
    /\ (pc' = "resolved" /\ pc # "resolved") =>
          /\ pc = "finally"
          /\ page = "closed"
          /\ browser = "open" /\ browser' = "closed"
          /\ result' = html

\* While the second of grace runs the relay works as before: a message whose
\* handler ends now is printed and sets its flag as at any other time.
C18_RelayInGrace ==
    (pc = "grace" /\ pc' = "grace") =>
        \A m \in BagToSet(pending) :
            (pending' = pending (-) SetToBag({ m }) /\ m.type = "error") =>
                /\ terminal' = Append(terminal, << "error", MessageText(m) >>)
                /\ haltFlags'.error

\* C18: a successful run is torn down in this order: dispatch, the second of
\* grace, page close, browser close, and only then the promise resolves with
\* the HTML; the page is never closed before the grace is over, and console
\* messages delivered during the grace are still processed.
C18_TeardownOrder ==
    /\ [][C18_TeardownStep /\ C18_RelayInGrace]_vars
    /\ [](pc = "grace" =>
              /\ page = "open" /\ browser = "open" /\ listening
              /\ emitted < MaxMsgs => ENABLED EmitConsole
              /\ pending # EmptyBag => ENABLED HandlerResume)
    /\ [](pc = "resolved" =>
              (page = "closed" /\ browser = "closed" /\ result = html))

\* The halt check found no error, the HTML went to standard output, and an
\* error the page logged was printed and flagged during the grace.
C18_Witness ==
    /\ pc = "grace"
    /\ out = Null
    /\ stdout = html
    /\ whenToHalt.haltOnError
    /\ haltFlags.error
    /\ terminal # << >>

\* The states of the orchestrator, numbered in their order; 0 is Aborted: an
\* error is on its way to the caller, or the process has exited.
C14_State(p, e) ==
    CASE p = "exited" \/ p = "rejected" \/ e # NoError -> 0
      [] p \in { "launch", "newPage" } -> 1
      [] p \in { "useLocalReSpec", "goto", "checkResponse" } -> 2
      [] p \in { "checkIfReSpec", "awaitComplete", "settle", "isRespecDone" } -> 3
      [] p \in { "getVersion", "evaluate", "awaitReady", "export" } -> 4
      [] p \in { "generated", "writeFile" } -> 5
      [] p \in { "grace", "pageClose", "finally" } -> 6
      [] p = "resolved" -> 7

\* A step stays in its state, moves to the next one, or aborts; Aborted and
\* Done are left by no step.
C14_Forward ==
    LET a == C14_State(pc, error)
        b == C14_State(pc', error')
    IN  /\ b \in { a, a + 1, 0 }
        /\ a \in { 0, 7 } => b = a

\* C14: the orchestrator moves through Launching, NavigatingToDocument,
\* ValidatingDocumentKind, AwaitingRenderCompletion, Dispatching,
\* ShuttingDown and Done in this order, skipping and revisiting none, and
\* leaves the sequence only for Aborted; the version is detected and parsed
\* before the readiness promise is awaited.
C14_OnlyForward ==
    /\ [][C14_Forward]_vars
    /\ [](C14_State(pc, error) \in 0..7)
    /\ [](pc \in { "evaluate", "awaitReady" } =>
              (respecVersion \in VersionStrings /\ Len(version) = 3))
    /\ [](pc \in { "launch", "newPage", "goto", "checkResponse", "checkIfReSpec",
                   "awaitComplete", "settle", "isRespecDone", "getVersion" }
              => (readyState = "pending" /\ ms = Unset))

\* A run that went through every state and ended in Done.
C14_Witness ==
    /\ pc = "resolved"
    /\ succeeded = Stages
    /\ result = html
    /\ html # Nothing

\* What a read of the timer has returned, against the time it was read at.
C17_Read ==
    ms # Unset =>
        /\ 0 <= ms /\ ms <= timeout
        /\ ms = (IF timeout - spent > 0 THEN timeout - spent ELSE 0)
        /\ spent >= timeout => ms = 0

\* C17: the timer of duration D reports max(0, D - elapsed): every read is
\* between 0 and D, successive reads never increase, and from elapsed >= D on
\* every read is 0; the readiness wait is given the value read when
\* extraction starts.
C17_RemainingFloorsAndFalls ==
    /\ []C17_Read
    /\ [][ /\ spent' >= spent
           /\ ms # Unset => ms' <= ms
           /\ (spent >= timeout /\ ms # Unset) => ms' = 0 ]_vars

\* A timer of 3 ms read 5 ms after its creation has returned 0.
C17_Witness ==
    /\ timeout = 3
    /\ spent = 5
    /\ ms = 0

\* page.goto() has been called.
C13_NavigationStarted == attempts["navigation"] > 0

\* C13: the console listener is registered before navigation starts; with
\* useLocal, request interception is enabled and its listener registered
\* before navigation starts; without useLocal, interception is never enabled.
C13_ArmedBeforeNavigation ==
    /\ [][ (~C13_NavigationStarted /\ C13_NavigationStarted') =>
              /\ listening'
              /\ useLocal => (intercepting' /\ requestListener')
              /\ requests' = << >> /\ emitted' = 0 /\ response' = NoResponse
          ]_vars
    /\ [](~C13_NavigationStarted <=> pc \in { "launch", "newPage", "useLocalReSpec" })
    /\ [](~C13_NavigationStarted => (requests = << >> /\ emitted = 0))
    /\ [](C13_NavigationStarted => listening)
    /\ [](~useLocal => (~intercepting /\ ~requestListener /\ requests = << >>))

\* Navigation has just started in a run with useLocal: both listeners are
\* registered and interception is on.
C13_Witness ==
    /\ useLocal
    /\ pc = "goto"
    /\ listening
    /\ intercepting
    /\ requestListener
    /\ requests = << >>

\* The requests answered with a local build so far.
C15_Substituted == { i \in 1..Len(requests) : requests[i].answered > 0 }

\* C15: interception is one-shot: whatever the interleaving of the request
\* events, at most one request is answered with the local build, and once
\* the handler of that request has ended the listener is removed and
\* interception is off.
C15_OneShot ==
    /\ Cardinality(C15_Substituted) <= 1
    /\ \A i \in C15_Substituted :
          requests[i].phase = "done" => (~requestListener /\ ~intercepting)

\* The request is a GET for a script that one of the host rules matches.
C16_Matches(req) ==
    /\ req.method = "GET"
    /\ req.resourceType = "script"
    /\ \/ /\ req.host = "www.w3.org"
          /\ Len(req.dir) >= 2 /\ req.dir[1] = "Tools" /\ req.dir[2] = "respec"
          /\ req.file # << "respec-", "highlight" >>
       \/ /\ req.host = "w3c.github.io"
          /\ Len(req.dir) >= 2 /\ req.dir[1] = "respec" /\ req.dir[2] = "builds"
       \/ /\ req.host \notin { "www.w3.org", "w3c.github.io" }
          /\ req.dir # << >> /\ req.dir[Len(req.dir)] = "builds"
          /\ Len(req.file) = 3 /\ req.file[1] = "respec-" /\ req.file[3] = ".js"

\* Nothing more will be done for the request: its handler has ended, or has
\* thrown, or no listener was there to handle it.
C16_Settled(r) == r.phase \in { "done", "threw", "unhandled" }

\* C16: every request delivered while interception is enabled is resolved
\* exactly once: continued if it is not a matching GET script request,
\* answered with the local build if it is; none is both, none is left
\* unresolved, with or without a profile name in its path, with or without
\* the listener still registered.
C16_ResolvedExactlyOnce ==
    \A i \in 1..Len(requests) :
        LET r == requests[i]
        IN  /\ r.continued + r.answered <= 1
            /\ C16_Settled(r) =>
                  /\ r.continued + r.answered = 1
                  /\ C16_Matches(r.req) <=> r.answered = 1
====
